---- MODULE Spec2Model ----
(***************************************************************************)
(* NanoPass password manager (src/src/main.rs): the command dispatcher of  *)
(* sample_main, the set_password helper and the multi-round export and     *)
(* import procedures, over the non-volatile password collection.           *)
(*                                                                         *)
(* A 16-byte AES block is abstracted to a 4-bit value (0..15); a 32-byte    *)
(* ArrayString is a pair of blocks; key and nonce are one block value each. *)
(***************************************************************************)
EXTENDS Integers, Sequences, FiniteSets, TLC

VARIABLES
    passwords,  \* the nvm::Collection<PasswordItem, 128> (main.rs:39, :62)
    enc_key,    \* key derived at start-up (main.rs:65-66)
    mode,       \* where the dispatcher waits for its next event
    next_item,  \* export: 1-based position of next_item in passwords; 0 outside export
    encrypted,  \* export/import: `encrypted` local (main.rs:323, :413)
    count,      \* import: `count` local, items still expected (main.rs:418)
    last,       \* the last event taken and the reply sent for it (observation)
    gates,      \* consent prompts asked by the last command taken from the main loop
    sent,       \* export: records delivered so far, as the host decodes them
    imported,   \* import: rounds of the sequence answered OK so far
    generated,  \* set_password: the buffer generate_random_password filled, if any
    restored,   \* a second device's collection, importing a backup (SpecCodec only)
    pending     \* a replace between its remove and its add: new_item (SpecPower only)

vars == <<passwords, enc_key, mode, next_item, encrypted, count, last, gates, sent,
          imported, generated, restored, pending>>

-----------------------------------------------------------------------------
(* Program constants and model bounds *)

Capacity == 128

\* What bip32_derive leaves in enc_key on this device (a block value).
DerivedKey == 6

MaxName == 2
MaxCount == 2

-----------------------------------------------------------------------------
(* Values *)

Blocks == 0 .. 15

\* The 32-byte string number n: two blocks.
StrOf(n) == <<n \div 16, n % 16>>

InputNames == {StrOf(i) : i \in 1 .. MaxName}
InputPasses == {<<7, 0>>, <<9, 4>>}
Nonces == {0, 10}

PasswordItem(name, pass) == [name |-> name, pass |-> pass]

InputItems == {PasswordItem(n, p) : n \in InputNames, p \in InputPasses}

\* A store holding Capacity - 1 entries whose names are not input names.
FillerStore == [i \in 1 .. (Capacity - 1) |-> PasswordItem(StrOf(MaxName + i), <<7, 0>>)]

-----------------------------------------------------------------------------
(* nvm::Collection: the Password Store of spec 4.1 *)

len(s) == Len(s)

\* Option<usize> of iter().position(|x| x.name == name): 0 is None, else the
\* 1-based position of the first match.
position(s, name) ==
    IF \E i \in 1 .. Len(s) : s[i].name = name
    THEN CHOOSE i \in 1 .. Len(s) :
            /\ s[i].name = name
            /\ \A j \in 1 .. (i - 1) : s[j].name # name
    ELSE 0

\* add: appends when there is room, else StorageFullError and no change.
add(s, item) ==
    IF Len(s) < Capacity
    THEN [ok |-> TRUE, s |-> Append(s, item)]
    ELSE [ok |-> FALSE, s |-> s]

\* remove(index): the entry at position i leaves, the others stay.
remove(s, i) == SubSeq(s, 1, i - 1) \o SubSeq(s, i + 1, Len(s))

clear(s) == <<>>

-----------------------------------------------------------------------------
(* tinyaes: AES-256 in CBC mode over 4-bit blocks *)

Bit(x, i) == (x \div (2 ^ i)) % 2

XOR(a, b) ==
    ((Bit(a, 0) + Bit(b, 0)) % 2)
    + 2 * ((Bit(a, 1) + Bit(b, 1)) % 2)
    + 4 * ((Bit(a, 2) + Bit(b, 2)) % 2)
    + 8 * ((Bit(a, 3) + Bit(b, 3)) % 2)

SBox == <<12, 5, 6, 11, 9, 0, 10, 13, 3, 14, 15, 8, 4, 7, 1, 2>>

InvSBox == [y \in Blocks |-> CHOOSE x \in Blocks : SBox[x + 1] = y]

\* One block through the cipher under key k, and back.
Cipher(k, x) == XOR(SBox[XOR(x, k) + 1], k)
InvCipher(k, y) == XOR(InvSBox[XOR(y, k)], k)

RECURSIVE CBC_chain(_, _, _)
\* AES_CBC_encrypt_buffer after AES_init_ctx_iv(key, iv): each block is
\* XORed with the previous ciphertext block (the iv first), then enciphered.
CBC_chain(k, prev, buf) ==
    IF buf = <<>> THEN <<>>
    ELSE LET c == Cipher(k, XOR(Head(buf), prev))
         IN <<c>> \o CBC_chain(k, c, Tail(buf))

AES_CBC_encrypt_buffer(k, iv, buf) == CBC_chain(k, iv, buf)

\* AES_CBC_decrypt_buffer after AES_init_ctx_iv(key, iv).
AES_CBC_decrypt_buffer(k, iv, buf) ==
    [i \in 1 .. Len(buf) |->
        XOR(InvCipher(k, buf[i]), IF i = 1 THEN iv ELSE buf[i - 1])]

-----------------------------------------------------------------------------
(* Records on the wire *)

\* The encrypted record with its tag computed over the plaintext buffer.
EncryptedRecord_mac_plain(password, key, nonce) ==
    LET buffer == password.name \o password.pass
        ct == AES_CBC_encrypt_buffer(key, nonce, buffer)
        again == AES_CBC_encrypt_buffer(key, nonce, buffer)
        mac == <<again[Len(again)]>>
    IN <<nonce>> \o ct \o mac

\* export, encrypted branch: nonce, then name and pass encrypted in CBC under
\* the nonce, then the last block of the ciphertext encrypted again.
EncryptedRecord(password, key, nonce) ==
    LET buffer == password.name \o password.pass
        ct == AES_CBC_encrypt_buffer(key, nonce, buffer)
        again == AES_CBC_encrypt_buffer(key, nonce, ct)
        mac == <<again[Len(again)]>>
    IN <<nonce>> \o ct \o mac

\* export, plaintext branch.
PlainRecord(password) == password.name \o password.pass

ExportRecord(password, enc, key, nonce) ==
    IF enc THEN EncryptedRecord(password, key, nonce) ELSE PlainRecord(password)

\* import, encrypted branch: the decrypted item and the result of the MAC check.
DecryptRecord(payload, key) ==
    LET nonce == payload[1]
        ct == SubSeq(payload, 2, 5)
        buffer == AES_CBC_decrypt_buffer(key, nonce, ct)
        again == AES_CBC_encrypt_buffer(key, nonce, ct)
        received_mac == <<payload[6]>>
        expected_mac == <<again[Len(again)]>>
    IN [new_item |-> PasswordItem(SubSeq(buffer, 1, 2), SubSeq(buffer, 3, 4)),
        decrypt_failed |-> received_mac # expected_mac]

\* import, plaintext branch.
ReadPlainRecord(payload) ==
    [new_item |-> PasswordItem(SubSeq(payload, 1, 2), SubSeq(payload, 3, 4)),
     decrypt_failed |-> FALSE]

ImportRecord(payload, enc, key) ==
    IF enc THEN DecryptRecord(payload, key) ELSE ReadPlainRecord(payload)

\* The records a host sends in an import round: records as an export under
\* the device's key makes them, and such records with the tag or one
\* ciphertext block altered.
Tampered(r) ==
    {[r EXCEPT ![6] = XOR(r[6], 1)], [r EXCEPT ![3] = XOR(r[3], 4)]}

EncryptedPayloads(key) ==
    LET made == {EncryptedRecord(it, key, n) : it \in InputItems, n \in Nonces}
    IN made \cup UNION {Tampered(r) : r \in made}

PlainPayloads == {PlainRecord(it) : it \in InputItems}

ImportPayloads(enc, key) == IF enc THEN EncryptedPayloads(key) ELSE PlainPayloads

-----------------------------------------------------------------------------
(* Observation of the last event *)

\* cmd 0 is a button event; status "None" means no reply was sent.
Ev(cmd, p1, payload, status, kind, data, item) ==
    [cmd |-> cmd, p1 |-> p1, payload |-> payload, status |-> status,
     kind |-> kind, data |-> data, item |-> item]

Asked(gate, ok) == [gate |-> gate, ok |-> ok]

Cmds == 1 .. 13
P1Values == 0 .. 2
Indices == (0 .. MaxName) \cup {Capacity - 1, Capacity}

ItemData(it) == it.name \o it.pass

-----------------------------------------------------------------------------
(* set_password *)

None == <<>>

\* PASS_CHARS as the bytes of its characters: a-z, A-Z, 0-9.
PASS_CHARS ==
    [i \in 1 .. 62 |->
        IF i <= 26 THEN 96 + i ELSE IF i <= 52 THEN 38 + i ELSE i - 5]

\* The values random::rand_u32_range(0..PASS_CHARS.len()) returns.
RandRange == 0 .. (Len(PASS_CHARS) - 1)

\* The draws of one generation in the main specification, and the family of
\* draws the generation is checked over: every value of the range at every
\* byte of the buffer.
GeneratedDraws == {[i \in 1 .. 16 |-> i - 1]}
DrawFamily ==
    {[i \in 1 .. 16 |-> (a + i - 1) % Len(PASS_CHARS)] : a \in RandRange}

\* generate_random_password with the loop one byte short.
generate_random_password_short(dest, size, rands) ==
    [i \in 1 .. Len(dest) |->
        IF i <= size - 1 THEN PASS_CHARS[rands[i] + 1] ELSE dest[i]]

\* for item in dest.iter_mut().take(size): the i-th byte is the character at
\* the i-th draw; bytes past size keep their value.
generate_random_password(dest, size, rands) ==
    [i \in 1 .. Len(dest) |->
        IF i <= size THEN PASS_CHARS[rands[i] + 1] ELSE dest[i]]

\* ArrayString<32>::set_from_bytes: the bytes, then zeros up to 32.
set_from_bytes(bytes) ==
    [i \in 1 .. 32 |-> IF i <= Len(bytes) THEN bytes[i] ELSE 0]

\* ArrayString<32>::as_str: the bytes before the first zero.
as_str(bytes) ==
    IF \E i \in 1 .. Len(bytes) : bytes[i] = 0
    THEN SubSeq(bytes, 1, (CHOOSE i \in 1 .. Len(bytes) :
                            /\ bytes[i] = 0
                            /\ \A j \in 1 .. (i - 1) : bytes[j] # 0) - 1)
    ELSE bytes

RECURSIVE SumBytes(_)
SumBytes(bytes) == IF bytes = <<>> THEN 0 ELSE Head(bytes) + SumBytes(Tail(bytes))

\* The block value standing for 16 bytes, and the two blocks of 32 bytes.
BlockOf(bytes) == SumBytes(bytes) % 16
BlocksOf(bytes) == <<BlockOf(SubSeq(bytes, 1, 16)), BlockOf(SubSeq(bytes, 17, 32))>>

\* let mut pass = [0u8; 16]; generate_random_password(&mut pass, len)
generated_pass(pass, rands) ==
    IF pass = None
    THEN generate_random_password([i \in 1 .. 16 |-> 0], 16, rands)
    ELSE <<>>

\* new_item.pass: the given password, or the generated bytes set_from_bytes.
new_pass(pass, rands) ==
    IF pass = None THEN BlocksOf(set_from_bytes(generated_pass(pass, rands))) ELSE pass

\* set_password with the update branch adding without removing the old entry.
set_password_keep_old(pw, name, pass, rand, consent) ==
    LET new_item == PasswordItem(name, new_pass(pass, rand))
        r == add(pw, new_item)
        asked == IF position(pw, name) # 0 THEN "Update password" ELSE "Create password"
    IN IF ~consent
       THEN [res |-> "NoConsent", passwords |-> pw, new_item |-> new_item,
             gates |-> <<Asked(asked, FALSE)>>]
       ELSE [res |-> IF r.ok THEN "Ok" ELSE "StorageFull", passwords |-> r.s,
             new_item |-> new_item, gates |-> <<Asked(asked, TRUE)>>]

\* set_password with the update branch putting the old entry back.
set_password_stale(pw, name, pass, rand, consent) ==
    LET new_item == PasswordItem(name, new_pass(pass, rand))
        index == position(pw, name)
        r == add(IF index # 0 THEN remove(pw, index) ELSE pw,
                 IF index # 0 THEN pw[index] ELSE new_item)
        asked == IF index # 0 THEN "Update password" ELSE "Create password"
    IN IF ~consent
       THEN [res |-> "NoConsent", passwords |-> pw, new_item |-> new_item,
             gates |-> <<Asked(asked, FALSE)>>]
       ELSE [res |-> IF r.ok THEN "Ok" ELSE "StorageFull", passwords |-> r.s,
             new_item |-> new_item, gates |-> <<Asked(asked, TRUE)>>]

\* set_password with the capacity check of the create branch lost.
set_password_overfill(pw, name, pass, rand, consent) ==
    LET new_item == PasswordItem(name, new_pass(pass, rand))
        index == position(pw, name)
        asked == IF index # 0 THEN "Update password" ELSE "Create password"
    IN IF ~consent
       THEN [res |-> "NoConsent", passwords |-> pw, new_item |-> new_item,
             gates |-> <<Asked(asked, FALSE)>>]
       ELSE [res |-> "Ok",
             passwords |-> Append(IF index # 0 THEN remove(pw, index) ELSE pw, new_item),
             new_item |-> new_item, gates |-> <<Asked(asked, TRUE)>>]

\* set_password removing the old entry before the prompt is answered.
set_password_remove_first(pw, name, pass, rand, consent) ==
    LET new_item == PasswordItem(name, new_pass(pass, rand))
        index == position(pw, name)
        rest == IF index # 0 THEN remove(pw, index) ELSE pw
        r == add(rest, new_item)
        asked == IF index # 0 THEN "Update password" ELSE "Create password"
    IN IF ~consent
       THEN [res |-> "NoConsent", passwords |-> rest, new_item |-> new_item,
             gates |-> <<Asked(asked, FALSE)>>]
       ELSE [res |-> IF r.ok THEN "Ok" ELSE "StorageFull", passwords |-> r.s,
             new_item |-> new_item, gates |-> <<Asked(asked, TRUE)>>]

\* set_password with the update branch adding the new entry before it
\* removes the old one.
set_password_add_first(pw, name, pass, rand, consent) ==
    LET new_item == PasswordItem(name, new_pass(pass, rand))
        index == position(pw, name)
    IN IF index # 0
       THEN IF ~consent
            THEN [res |-> "NoConsent", passwords |-> pw, new_item |-> new_item,
                  gates |-> <<Asked("Update password", FALSE)>>]
            ELSE LET r == add(pw, new_item)
                 IN [res |-> IF r.ok THEN "Ok" ELSE "Panic",
                     passwords |-> IF r.ok THEN remove(r.s, index) ELSE r.s,
                     new_item |-> new_item,
                     gates |-> <<Asked("Update password", TRUE)>>]
       ELSE IF ~consent
            THEN [res |-> "NoConsent", passwords |-> pw, new_item |-> new_item,
                  gates |-> <<Asked("Create password", FALSE)>>]
            ELSE LET r == add(pw, new_item)
                 IN [res |-> IF r.ok THEN "Ok" ELSE "StorageFull",
                     passwords |-> r.s, new_item |-> new_item,
                     gates |-> <<Asked("Create password", TRUE)>>]

\* pass is None for a password to generate; consent is the answer to the one
\* prompt asked.  res "Panic" is the panic!() of the update branch.
set_password(pw, name, pass, rand, consent) ==
    LET new_item == PasswordItem(name, new_pass(pass, rand))
        index == position(pw, name)
    IN IF index # 0
       THEN IF ~consent
            THEN [res |-> "NoConsent", passwords |-> pw, new_item |-> new_item,
                  gates |-> <<Asked("Update password", FALSE)>>]
            ELSE LET r == add(remove(pw, index), new_item)
                 IN [res |-> IF r.ok THEN "Ok" ELSE "Panic",
                     passwords |-> r.s, new_item |-> new_item,
                     gates |-> <<Asked("Update password", TRUE)>>]
       ELSE IF ~consent
            THEN [res |-> "NoConsent", passwords |-> pw, new_item |-> new_item,
                  gates |-> <<Asked("Create password", FALSE)>>]
            ELSE LET r == add(pw, new_item)
                 IN [res |-> IF r.ok THEN "Ok" ELSE "StorageFull",
                     passwords |-> r.s, new_item |-> new_item,
                     gates |-> <<Asked("Create password", TRUE)>>]

-----------------------------------------------------------------------------
(* The main loop of sample_main *)

Idle == mode = "Idle"

ButtonExit ==
    /\ Idle
    /\ mode' = "Exited"
    /\ last' = Ev(0, 0, <<>>, "None", "exit", <<>>, <<>>)
    /\ UNCHANGED <<passwords, enc_key, next_item, encrypted, count,
                   gates, sent, imported, generated, restored, pending>>

Button ==
    /\ Idle
    /\ last' = Ev(0, 0, <<>>, "None", "button", <<>>, <<>>)
    /\ UNCHANGED <<passwords, enc_key, mode, next_item, encrypted,
                   count, gates, sent, imported, generated, restored, pending>>

GetVersion ==
    /\ Idle
    /\ last' = Ev(1, 0, <<>>, "OK", "version", <<>>, <<>>)
    /\ gates' = <<>>
    /\ sent' = <<>>
    /\ imported' = 0
    /\ generated' = <<>>
    /\ UNCHANGED <<passwords, enc_key, mode, next_item, encrypted, count,
                   restored, pending>>

GetCount ==
    /\ Idle
    /\ last' = Ev(2, 0, <<>>, "OK", "count", <<len(passwords)>>, <<>>)
    /\ gates' = <<>>
    /\ sent' = <<>>
    /\ imported' = 0
    /\ generated' = <<>>
    /\ UNCHANGED <<passwords, enc_key, mode, next_item, encrypted, count,
                   restored, pending>>

SetPasswordWith(names, p1s, draws) ==
    /\ Idle
    /\ \E name \in names, p1 \in p1s, consent \in BOOLEAN :
       \E pass \in IF p1 = 0 THEN InputPasses ELSE {None},
          rand \in IF p1 = 0 THEN {<<>>} ELSE draws :
        LET r == set_password(passwords, name, pass, rand, consent)
        IN /\ passwords' = r.passwords
           /\ gates' = r.gates
           /\ generated' = generated_pass(pass, rand)
           /\ IF r.res = "Panic"
              THEN /\ mode' = "Exited"
                   /\ last' = Ev(3, p1, name \o pass, "None", "panic", <<>>,
                                 ItemData(r.new_item))
              ELSE /\ mode' = mode
                   /\ last' = Ev(3, p1, name \o pass,
                                 IF r.res = "Ok" THEN "OK" ELSE "Unknown",
                                 "none", <<>>, ItemData(r.new_item))
    /\ sent' = <<>>
    /\ imported' = 0
    /\ UNCHANGED <<enc_key, next_item, encrypted, count, restored, pending>>

SetPassword == SetPasswordWith(InputNames, P1Values, GeneratedDraws)

\* SetPassword asked to generate, over the whole family of draws.
SetGenerated == SetPasswordWith({StrOf(1)}, {1}, DrawFamily)

GetNameByIndex ==
    /\ Idle
    /\ \E index \in Indices :
        last' = IF index < len(passwords)
                THEN Ev(4, 0, <<index>>, "OK", "name", passwords[index + 1].name, <<>>)
                ELSE Ev(4, 0, <<index>>, "Unknown", "none", <<>>, <<>>)
    /\ gates' = <<>>
    /\ sent' = <<>>
    /\ imported' = 0
    /\ generated' = <<>>
    /\ UNCHANGED <<passwords, enc_key, mode, next_item, encrypted, count,
                   restored, pending>>

\* GetPasswordByName taking the entry out of the store once it was read.
GetPasswordByName_consume ==
    /\ mode = "Idle"
    /\ \E name \in InputNames, consent \in BOOLEAN :
        LET p == position(passwords, name)
        IN IF p # 0
           THEN /\ gates' = <<Asked("Read password", consent)>>
                /\ passwords' = IF consent THEN remove(passwords, p) ELSE passwords
                /\ last' = IF consent
                           THEN Ev(5, 0, name, "OK", "pass", passwords[p].pass, <<>>)
                           ELSE Ev(5, 0, name, "Unknown", "none", <<>>, <<>>)
           ELSE /\ gates' = <<>>
                /\ passwords' = passwords
                /\ last' = Ev(5, 0, name, "Unknown", "none", <<>>, <<>>)
    /\ sent' = <<>>
    /\ imported' = 0
    /\ generated' = <<>>
    /\ UNCHANGED <<enc_key, mode, next_item, encrypted, count, restored, pending>>

GetPasswordByName ==
    /\ Idle
    /\ \E name \in InputNames, consent \in BOOLEAN :
        LET p == position(passwords, name)
        IN IF p # 0
           THEN /\ gates' = <<Asked("Read password", consent)>>
                /\ last' = IF consent
                           THEN Ev(5, 0, name, "OK", "pass", passwords[p].pass, <<>>)
                           ELSE Ev(5, 0, name, "Unknown", "none", <<>>, <<>>)
           ELSE /\ gates' = <<>>
                /\ last' = Ev(5, 0, name, "Unknown", "none", <<>>, <<>>)
    /\ sent' = <<>>
    /\ imported' = 0
    /\ generated' = <<>>
    /\ UNCHANGED <<passwords, enc_key, mode, next_item, encrypted, count,
                   restored, pending>>

\* DeleteByName removing the first entry of the store instead of the match.
DeleteByName_first ==
    /\ mode = "Idle"
    /\ \E name \in InputNames, consent \in BOOLEAN :
        LET p == position(passwords, name)
        IN IF p # 0
           THEN /\ gates' = <<Asked("Remove password", consent)>>
                /\ passwords' = IF consent THEN remove(passwords, 1) ELSE passwords
                /\ last' = Ev(6, 0, name, IF consent THEN "OK" ELSE "Unknown",
                              "none", <<>>, <<>>)
           ELSE /\ gates' = <<>>
                /\ passwords' = passwords
                /\ last' = Ev(6, 0, name, "Unknown", "none", <<>>, <<>>)
    /\ sent' = <<>>
    /\ imported' = 0
    /\ generated' = <<>>
    /\ UNCHANGED <<enc_key, mode, next_item, encrypted, count, restored, pending>>

DeleteByName ==
    /\ Idle
    /\ \E name \in InputNames, consent \in BOOLEAN :
        LET p == position(passwords, name)
        IN IF p # 0
           THEN /\ gates' = <<Asked("Remove password", consent)>>
                /\ passwords' = IF consent THEN remove(passwords, p) ELSE passwords
                /\ last' = Ev(6, 0, name, IF consent THEN "OK" ELSE "Unknown",
                              "none", <<>>, <<>>)
           ELSE /\ gates' = <<>>
                /\ passwords' = passwords
                /\ last' = Ev(6, 0, name, "Unknown", "none", <<>>, <<>>)
    /\ sent' = <<>>
    /\ imported' = 0
    /\ generated' = <<>>
    /\ UNCHANGED <<enc_key, mode, next_item, encrypted, count, restored, pending>>

\* 0x08 outside an export answered like an unknown code.
ExportReserved_BadCLA ==
    /\ mode = "Idle"
    /\ last' = Ev(8, 0, <<>>, "BadCLA", "none", <<>>, <<>>)
    /\ gates' = <<>>
    /\ sent' = <<>>
    /\ imported' = 0
    /\ generated' = <<>>
    /\ UNCHANGED <<passwords, enc_key, mode, next_item, encrypted, count,
                   restored, pending>>

ExportReserved ==
    /\ Idle
    /\ last' = Ev(8, 0, <<>>, "Unknown", "none", <<>>, <<>>)
    /\ gates' = <<>>
    /\ sent' = <<>>
    /\ imported' = 0
    /\ generated' = <<>>
    /\ UNCHANGED <<passwords, enc_key, mode, next_item, encrypted, count,
                   restored, pending>>

ImportReserved ==
    /\ Idle
    /\ last' = Ev(10, 0, <<>>, "Unknown", "none", <<>>, <<>>)
    /\ gates' = <<>>
    /\ sent' = <<>>
    /\ imported' = 0
    /\ generated' = <<>>
    /\ UNCHANGED <<passwords, enc_key, mode, next_item, encrypted, count,
                   restored, pending>>

\* DeleteAll clearing the store once the first prompt is accepted.
DeleteAll_single ==
    /\ mode = "Idle"
    /\ \E first \in BOOLEAN, second \in BOOLEAN :
        IF first
        THEN /\ gates' = <<Asked("Remove all passwords", TRUE),
                           Asked("Are you sure?", second)>>
             /\ passwords' = clear(passwords)
             /\ last' = Ev(11, 0, <<>>, IF second THEN "OK" ELSE "Unknown",
                           "none", <<>>, <<>>)
        ELSE /\ second = FALSE
             /\ gates' = <<Asked("Remove all passwords", FALSE)>>
             /\ passwords' = passwords
             /\ last' = Ev(11, 0, <<>>, "Unknown", "none", <<>>, <<>>)
    /\ sent' = <<>>
    /\ imported' = 0
    /\ generated' = <<>>
    /\ UNCHANGED <<enc_key, mode, next_item, encrypted, count, restored, pending>>

DeleteAll ==
    /\ Idle
    /\ \E first \in BOOLEAN, second \in BOOLEAN :
        IF first
        THEN /\ gates' = <<Asked("Remove all passwords", TRUE),
                           Asked("Are you sure?", second)>>
             /\ passwords' = IF second THEN clear(passwords) ELSE passwords
             /\ last' = Ev(11, 0, <<>>, IF second THEN "OK" ELSE "Unknown",
                           "none", <<>>, <<>>)
        ELSE /\ second = FALSE
             /\ gates' = <<Asked("Remove all passwords", FALSE)>>
             /\ passwords' = passwords
             /\ last' = Ev(11, 0, <<>>, "Unknown", "none", <<>>, <<>>)
    /\ sent' = <<>>
    /\ imported' = 0
    /\ generated' = <<>>
    /\ UNCHANGED <<enc_key, mode, next_item, encrypted, count, restored, pending>>

Exit ==
    /\ Idle
    /\ mode' = "Exited"
    /\ last' = Ev(12, 0, <<>>, "OK", "none", <<>>, <<>>)
    /\ gates' = <<>>
    /\ sent' = <<>>
    /\ imported' = 0
    /\ generated' = <<>>
    /\ UNCHANGED <<passwords, enc_key, next_item, encrypted, count, restored, pending>>

BadInstruction ==
    /\ Idle
    /\ \E cmd \in Cmds \ (1 .. 12) :
        last' = Ev(cmd, 0, <<>>, "BadCLA", "none", <<>>, <<>>)
    /\ gates' = <<>>
    /\ sent' = <<>>
    /\ imported' = 0
    /\ generated' = <<>>
    /\ UNCHANGED <<passwords, enc_key, mode, next_item, encrypted, count,
                   restored, pending>>

-----------------------------------------------------------------------------
(* export *)

\* export entering the sequence whatever the answer to the plaintext warning.
export_no_warning(pw, p1, first, second) ==
    IF p1 \notin {0, 1}
    THEN [entered |-> FALSE, status |-> "Unknown", data |-> <<>>, gates |-> <<>>]
    ELSE IF ~first
    THEN [entered |-> FALSE, status |-> "Unknown", data |-> <<>>,
          gates |-> <<Asked("Export passwords", FALSE)>>]
    ELSE [entered |-> TRUE, status |-> "OK", data |-> <<len(pw)>>,
          gates |-> IF p1 = 0
                    THEN <<Asked("Export passwords", TRUE),
                           Asked("Export is plaintext!", second)>>
                    ELSE <<Asked("Export passwords", TRUE)>>]

\* Command 0x07 up to the reply with the count: first and second are the
\* answers to "Export passwords" and to the plaintext warning.
export(pw, p1, first, second) ==
    IF p1 \notin {0, 1}
    THEN [entered |-> FALSE, status |-> "Unknown", data |-> <<>>, gates |-> <<>>]
    ELSE IF ~first
    THEN [entered |-> FALSE, status |-> "Unknown", data |-> <<>>,
          gates |-> <<Asked("Export passwords", FALSE)>>]
    ELSE IF p1 = 0 /\ ~second
    THEN [entered |-> FALSE, status |-> "Unknown", data |-> <<>>,
          gates |-> <<Asked("Export passwords", TRUE),
                      Asked("Export is plaintext!", FALSE)>>]
    ELSE [entered |-> TRUE, status |-> "OK", data |-> <<len(pw)>>,
          gates |-> IF p1 = 0
                    THEN <<Asked("Export passwords", TRUE),
                           Asked("Export is plaintext!", TRUE)>>
                    ELSE <<Asked("Export passwords", TRUE)>>]

\* What the host reads in a record it received, with the key of the export.
HostView(record, enc, key) ==
    LET d == ImportRecord(record, enc, key)
    IN IF d.decrypt_failed THEN PasswordItem(<<>>, <<>>) ELSE d.new_item

ExportStart ==
    /\ Idle
    /\ \E p1 \in P1Values :
       \E first \in IF p1 \in {0, 1} THEN BOOLEAN ELSE {FALSE} :
       \E second \in IF p1 = 0 /\ first THEN BOOLEAN ELSE {FALSE} :
        LET r == export(passwords, p1, first, second)
            waiting == r.entered /\ len(passwords) > 0
        IN /\ last' = Ev(7, p1, <<>>, r.status,
                         IF r.entered THEN "count" ELSE "none", r.data, <<>>)
           /\ gates' = r.gates
           /\ mode' = IF waiting THEN "Exporting" ELSE "Idle"
           /\ next_item' = IF waiting THEN 1 ELSE 0
           /\ encrypted' = (waiting /\ p1 = 1)
    /\ count' = 0
    /\ sent' = <<>>
    /\ imported' = 0
    /\ generated' = <<>>
    /\ UNCHANGED <<passwords, enc_key, restored, pending>>

\* The iterator advanced twice after a record.
iter_next_skip(pw, i) == IF i + 1 < len(pw) THEN i + 2 ELSE 0

\* iter.next() after the item at position i: the next position, 0 for None.
iter_next(pw, i) == IF i < len(pw) THEN i + 1 ELSE 0

ExportContinue ==
    /\ mode = "Exporting"
    /\ \E nonce \in IF encrypted THEN Nonces ELSE {0} :
        LET record == ExportRecord(passwords[next_item], encrypted, enc_key, nonce)
        IN /\ last' = Ev(8, 0, <<>>, "OK", "record", record, <<>>)
           /\ sent' = Append(sent, HostView(record, encrypted, enc_key))
    /\ next_item' = iter_next(passwords, next_item)
    /\ mode' = IF next_item' # 0 THEN "Exporting" ELSE "Idle"
    /\ encrypted' = (next_item' # 0 /\ encrypted)
    /\ UNCHANGED <<passwords, enc_key, count, gates, imported, generated,
                   restored, pending>>

\* The `_ => {}` arm of export's loop: nothing is sent, the loop goes on.
ExportOther ==
    /\ mode = "Exporting"
    /\ \E cmd \in Cmds \ {8} :
        last' = Ev(cmd, 0, <<>>, "None", "none", <<>>, <<>>)
    /\ UNCHANGED <<passwords, enc_key, mode, next_item, encrypted,
                   count, gates, sent, imported, generated, restored, pending>>

-----------------------------------------------------------------------------
(* import *)

\* Command 0x09 up to the reply: n is the declared count.
import(p1, n, consent) ==
    IF p1 \notin {0, 1}
    THEN [entered |-> FALSE, status |-> "Unknown", gates |-> <<>>]
    ELSE IF ~consent
    THEN [entered |-> FALSE, status |-> "Unknown",
          gates |-> <<Asked("Import passwords", FALSE)>>]
    ELSE [entered |-> TRUE, status |-> "OK",
          gates |-> <<Asked("Import passwords", TRUE)>>]

\* A round that replies failure on a bad tag and stays in the loop.
import_round_no_break(pw, payload, enc, key) ==
    LET d == ImportRecord(payload, enc, key)
        index == position(pw, d.new_item.name)
        r == add(IF index # 0 THEN remove(pw, index) ELSE pw, d.new_item)
    IN IF ~d.decrypt_failed
       THEN [passwords |-> r.s, status |-> IF r.ok THEN "OK" ELSE "Unknown",
             break |-> FALSE, new_item |-> d.new_item]
       ELSE [passwords |-> pw, status |-> "Unknown", break |-> FALSE,
             new_item |-> d.new_item]

\* A round that adds the decoded entry without removing the entry of that name.
import_round_no_remove(pw, payload, enc, key) ==
    LET d == ImportRecord(payload, enc, key)
        r == add(pw, d.new_item)
    IN IF ~d.decrypt_failed
       THEN [passwords |-> r.s, status |-> IF r.ok THEN "OK" ELSE "Unknown",
             break |-> FALSE, new_item |-> d.new_item]
       ELSE [passwords |-> pw, status |-> "Unknown", break |-> TRUE,
             new_item |-> d.new_item]

\* A round that leaves the loop when add reports a full store.
import_round_full_breaks(pw, payload, enc, key) ==
    LET d == ImportRecord(payload, enc, key)
        index == position(pw, d.new_item.name)
        r == add(IF index # 0 THEN remove(pw, index) ELSE pw, d.new_item)
    IN IF ~d.decrypt_failed
       THEN [passwords |-> r.s, status |-> IF r.ok THEN "OK" ELSE "Unknown",
             break |-> ~r.ok, new_item |-> d.new_item]
       ELSE [passwords |-> pw, status |-> "Unknown", break |-> TRUE,
             new_item |-> d.new_item]

\* One 0x0a round of import's loop.
import_round(pw, payload, enc, key) ==
    LET d == ImportRecord(payload, enc, key)
        index == position(pw, d.new_item.name)
        r == add(IF index # 0 THEN remove(pw, index) ELSE pw, d.new_item)
    IN IF ~d.decrypt_failed
       THEN [passwords |-> r.s, status |-> IF r.ok THEN "OK" ELSE "Unknown",
             break |-> FALSE, new_item |-> d.new_item]
       ELSE [passwords |-> pw, status |-> "Unknown", break |-> TRUE,
             new_item |-> d.new_item]

ImportStart ==
    /\ Idle
    /\ \E p1 \in P1Values :
       \E n \in IF p1 \in {0, 1} THEN 0 .. MaxCount ELSE {0},
          consent \in IF p1 \in {0, 1} THEN BOOLEAN ELSE {FALSE} :
        LET r == import(p1, n, consent)
            waiting == r.entered /\ n > 0
        IN /\ last' = Ev(9, p1, IF p1 \in {0, 1} THEN <<n>> ELSE <<>>, r.status,
                         "none", <<>>, <<>>)
           /\ gates' = r.gates
           /\ mode' = IF waiting THEN "Importing" ELSE "Idle"
           /\ count' = IF waiting THEN n ELSE 0
           /\ encrypted' = (waiting /\ p1 = 1)
    /\ next_item' = 0
    /\ sent' = <<>>
    /\ imported' = 0
    /\ generated' = <<>>
    /\ UNCHANGED <<passwords, enc_key, restored, pending>>

ImportContinue ==
    /\ mode = "Importing"
    /\ \E payload \in ImportPayloads(encrypted, enc_key) :
        LET r == import_round(passwords, payload, encrypted, enc_key)
            left == IF r.break THEN 0 ELSE count - 1
        IN /\ passwords' = r.passwords
           /\ last' = Ev(10, 0, payload, r.status, "none", <<>>, ItemData(r.new_item))
           /\ count' = left
           /\ mode' = IF left > 0 THEN "Importing" ELSE "Idle"
           /\ encrypted' = (left > 0 /\ encrypted)
           /\ imported' = IF r.status = "OK" THEN imported + 1 ELSE imported
    /\ UNCHANGED <<enc_key, next_item, gates, sent, generated, restored, pending>>

\* The `_` arm replying BadCLA without leaving the loop.
ImportOther_stay ==
    /\ mode = "Importing"
    /\ \E cmd \in Cmds \ {10} :
        last' = Ev(cmd, 0, <<>>, "BadCLA", "none", <<>>, <<>>)
    /\ UNCHANGED <<passwords, enc_key, mode, next_item, encrypted, count,
                   gates, sent, imported, generated, restored, pending>>

\* The `_` arm leaving the loop with the remaining count and the mode of the
\* import still in place.
ImportOther_keep_count ==
    /\ mode = "Importing"
    /\ \E cmd \in Cmds \ {10} :
        last' = Ev(cmd, 0, <<>>, "BadCLA", "none", <<>>, <<>>)
    /\ mode' = "Idle"
    /\ UNCHANGED <<passwords, enc_key, next_item, encrypted, count,
                   gates, sent, imported, generated, restored, pending>>

\* The `_` arm of import's loop: BadCLA and break.
ImportOther ==
    /\ mode = "Importing"
    /\ \E cmd \in Cmds \ {10} :
        last' = Ev(cmd, 0, <<>>, "BadCLA", "none", <<>>, <<>>)
    /\ mode' = "Idle"
    /\ count' = 0
    /\ encrypted' = FALSE
    /\ UNCHANGED <<passwords, enc_key, next_item, gates,
                   sent, imported, generated, restored, pending>>

-----------------------------------------------------------------------------
(* Specifications *)

InitCommon ==
    /\ enc_key = DerivedKey
    /\ mode = "Idle"
    /\ next_item = 0
    /\ encrypted = FALSE
    /\ count = 0
    /\ last = Ev(0, 0, <<>>, "None", "boot", <<>>, <<>>)
    /\ gates = <<>>
    /\ sent = <<>>
    /\ imported = 0
    /\ generated = <<>>
    /\ restored = <<>>
    /\ pending = <<>>

\* First boot: the collection is empty.
Init == passwords = <<>> /\ InitCommon

\* A device on which Capacity - 1 passwords were created earlier.
InitFull == passwords = FillerStore /\ InitCommon

Next ==
    \/ ButtonExit
    \/ Button
    \/ GetVersion
    \/ GetCount
    \/ SetPassword
    \/ GetNameByIndex
    \/ GetPasswordByName
    \/ DeleteByName
    \/ ExportStart
    \/ ExportReserved
    \/ ImportStart
    \/ ImportReserved
    \/ DeleteAll
    \/ Exit
    \/ BadInstruction
    \/ ExportContinue
    \/ ExportOther
    \/ ImportContinue
    \/ ImportOther

Spec == Init /\ [][Next]_vars

SpecFull == InitFull /\ [][Next]_vars

-----------------------------------------------------------------------------
(* Vocabulary of the properties *)

\* SetPassword generating, over the whole family of draws, from first boot.
NextGen ==
    \/ SetGenerated
    \/ DeleteAll

SpecGen == Init /\ [][NextGen]_vars

-----------------------------------------------------------------------------
(* A backup carried from one device to another *)

\* The entries and the stores a backup is made of: names and passwords with
\* blocks at both ends of the range, stores of one or two entries.
CodecItems ==
    {PasswordItem(n, p) : n \in {<<0, 1>>, <<15, 8>>, <<6, 6>>},
                          p \in {<<7, 0>>, <<9, 4>>, <<0, 0>>, <<15, 15>>}}

CodecStores ==
    {<<a>> : a \in CodecItems}
    \cup {s \in {<<a, b>> : a, b \in CodecItems} : s[1].name # s[2].name}

\* The 0x08 arm of export on the first device: the record of the entry under
\* the cursor is sent and the cursor advances.
CodecExport ==
    /\ mode = "Exporting"
    /\ \E nonce \in IF encrypted THEN Nonces ELSE {0} :
        last' = Ev(8, 0, <<>>, "OK", "record",
                   ExportRecord(passwords[next_item], encrypted, enc_key, nonce), <<>>)
    /\ sent' = Append(sent, passwords[next_item])
    /\ next_item' = iter_next(passwords, next_item)
    /\ mode' = "Importing"
    /\ UNCHANGED <<passwords, enc_key, encrypted, count, gates, imported,
                   generated, restored, pending>>

\* The 0x0a arm of import on the second device, given the record as sent.
CodecImport ==
    /\ mode = "Importing"
    /\ LET r == import_round(restored, last.data, encrypted, enc_key)
           left == IF r.break THEN 0 ELSE count - 1
       IN /\ restored' = r.passwords
          /\ last' = Ev(10, 0, last.data, r.status, "none", <<>>, ItemData(r.new_item))
          /\ count' = left
          /\ mode' = IF left > 0 THEN "Exporting" ELSE "Idle"
          /\ imported' = IF r.status = "OK" THEN imported + 1 ELSE imported
    /\ UNCHANGED <<passwords, enc_key, next_item, encrypted, gates, sent, generated,
                   pending>>

\* An export of a store under any key, in either mode, accepted on the first
\* device, and an import of as many records accepted on an empty second device.
InitCodec ==
    /\ passwords \in CodecStores
    /\ enc_key \in Blocks
    /\ encrypted \in BOOLEAN
    /\ mode = "Exporting"
    /\ next_item = 1
    /\ count = Len(passwords)
    /\ last = Ev(7, IF encrypted THEN 1 ELSE 0, <<>>, "OK", "count", <<Len(passwords)>>, <<>>)
    /\ gates = <<>>
    /\ sent = <<>>
    /\ imported = 0
    /\ generated = <<>>
    /\ restored = <<>>
    /\ pending = <<>>

NextCodec ==
    \/ CodecExport
    \/ CodecImport

SpecCodec == InitCodec /\ [][NextCodec]_vars

-----------------------------------------------------------------------------
(* The replace paths, one store call at a time, with power loss *)

\* What a replace holds between its remove and its add: the entry to add;
\* replaced records the entry the remove took out (observation only).
Pending(new_item, replaced) == [new_item |-> new_item, replaced |-> replaced]

\* Command 0x03 up to its first store call: a refused prompt ends it, a
\* create is its single add, an accepted update does its remove.
SetPasswordCall ==
    /\ Idle
    /\ \E name \in InputNames, p1 \in P1Values, consent \in BOOLEAN :
       \E pass \in IF p1 = 0 THEN InputPasses ELSE {None},
          rand \in IF p1 = 0 THEN {<<>>} ELSE GeneratedDraws :
        LET new_item == PasswordItem(name, new_pass(pass, rand))
            index == position(passwords, name)
            r == add(passwords, new_item)
        IN /\ generated' = generated_pass(pass, rand)
           /\ IF index # 0 /\ consent
              THEN /\ passwords' = remove(passwords, index)
                   /\ pending' = Pending(new_item, passwords[index])
                   /\ mode' = "Updating"
                   /\ gates' = <<Asked("Update password", TRUE)>>
                   /\ last' = Ev(3, p1, name \o pass, "None", "none", <<>>,
                                 ItemData(new_item))
              ELSE /\ passwords' = IF consent THEN r.s ELSE passwords
                   /\ pending' = <<>>
                   /\ mode' = "Idle"
                   /\ gates' = <<Asked(IF index # 0 THEN "Update password"
                                       ELSE "Create password", consent)>>
                   /\ last' = Ev(3, p1, name \o pass,
                                 IF consent /\ r.ok THEN "OK" ELSE "Unknown",
                                 "none", <<>>, ItemData(new_item))
    /\ sent' = <<>>
    /\ imported' = 0
    /\ UNCHANGED <<enc_key, next_item, encrypted, count, restored>>

\* The add of the update branch and the reply, or its panic.
SetPasswordAdd ==
    /\ mode = "Updating"
    /\ LET r == add(passwords, pending.new_item)
       IN /\ passwords' = r.s
          /\ mode' = IF r.ok THEN "Idle" ELSE "Exited"
          /\ last' = [last EXCEPT !.status = IF r.ok THEN "OK" ELSE "None",
                                  !.kind = IF r.ok THEN "none" ELSE "panic"]
    /\ pending' = <<>>
    /\ UNCHANGED <<enc_key, next_item, encrypted, count, gates, sent, imported,
                   generated, restored>>

\* A 0x0a round of import up to its first store call: a bad tag ends the
\* sequence, a new name is its single add, a name in the store is removed.
ImportRoundCall ==
    /\ mode = "Importing"
    /\ \E payload \in ImportPayloads(encrypted, enc_key) :
        LET d == ImportRecord(payload, encrypted, enc_key)
            index == position(passwords, d.new_item.name)
            r == add(passwords, d.new_item)
            left == IF d.decrypt_failed THEN 0 ELSE count - 1
        IN /\ count' = left
           /\ IF ~d.decrypt_failed /\ index # 0
              THEN /\ passwords' = remove(passwords, index)
                   /\ pending' = Pending(d.new_item, passwords[index])
                   /\ mode' = "Replacing"
                   /\ encrypted' = encrypted
                   /\ imported' = imported
                   /\ last' = Ev(10, 0, payload, "None", "none", <<>>,
                                 ItemData(d.new_item))
              ELSE /\ passwords' = IF d.decrypt_failed THEN passwords ELSE r.s
                   /\ pending' = <<>>
                   /\ mode' = IF left > 0 THEN "Importing" ELSE "Idle"
                   /\ encrypted' = (left > 0 /\ encrypted)
                   /\ imported' = IF ~d.decrypt_failed /\ r.ok
                                  THEN imported + 1 ELSE imported
                   /\ last' = Ev(10, 0, payload,
                                 IF ~d.decrypt_failed /\ r.ok THEN "OK" ELSE "Unknown",
                                 "none", <<>>, ItemData(d.new_item))
    /\ UNCHANGED <<enc_key, next_item, gates, sent, generated, restored>>

\* The add that follows the remove of a round, and the reply.
ImportRoundAdd ==
    /\ mode = "Replacing"
    /\ LET r == add(passwords, pending.new_item)
       IN /\ passwords' = r.s
          /\ last' = [last EXCEPT !.status = IF r.ok THEN "OK" ELSE "Unknown"]
          /\ imported' = IF r.ok THEN imported + 1 ELSE imported
    /\ mode' = IF count > 0 THEN "Importing" ELSE "Idle"
    /\ encrypted' = (count > 0 /\ encrypted)
    /\ pending' = <<>>
    /\ UNCHANGED <<enc_key, next_item, count, gates, sent, generated, restored>>

\* Power is lost and the application starts again: the collection in
\* non-volatile memory is what the store calls made so far left in it, and
\* everything else is as at start-up.  last keeps the command that was cut.
PowerLoss ==
    /\ mode # "Exited"
    /\ mode' = "Idle"
    /\ next_item' = 0
    /\ encrypted' = FALSE
    /\ count' = 0
    /\ last' = [last EXCEPT !.status = "None", !.kind = "boot"]
    /\ gates' = <<>>
    /\ sent' = <<>>
    /\ imported' = 0
    /\ generated' = <<>>
    /\ pending' = <<>>
    /\ UNCHANGED <<passwords, enc_key, restored>>

NextPower ==
    \/ SetPasswordCall
    \/ SetPasswordAdd
    \/ ImportStart
    \/ ImportRoundCall
    \/ ImportRoundAdd
    \/ ImportOther
    \/ DeleteAll
    \/ PowerLoss

SpecPower == Init /\ [][NextPower]_vars

Names(pw) == {pw[i].name : i \in 1 .. Len(pw)}
Items(pw) == {pw[i] : i \in 1 .. Len(pw)}
WithName(pw, name) == {i \in 1 .. Len(pw) : pw[i].name = name}

Rejected(g) == \E i \in 1 .. Len(g) : ~g[i].ok
Failure(status) == status \in {"Unknown", "BadCLA"}

\* The tag an encrypted record must carry under key k.
ExpectedTag(payload, k) ==
    LET again == AES_CBC_encrypt_buffer(k, payload[1], SubSeq(payload, 2, 5))
    IN again[4]

-----------------------------------------------------------------------------
\* C1: from an empty store, whatever commands were handled, no two entries
\* of the store have the same name.
C1_NameUnique ==
    \A i, j \in 1 .. Len(passwords) :
        i # j => passwords[i].name # passwords[j].name

\* An accepted update of one of several entries has just been handled.
C1_Witness ==
    /\ last.cmd = 3
    /\ gates = <<Asked("Update password", TRUE)>>
    /\ Len(passwords) = MaxName

\* The command of the step being taken, seen from the main loop.
Handles(c) == mode = "Idle" /\ last'.cmd = c

ArgName == SubSeq(last'.payload, 1, 2)

-----------------------------------------------------------------------------
\* C2: the store never holds more than 128 entries, and an accepted
\* SetPassword for a name not in the store, handled while the store holds 128
\* entries, is answered with a failure and leaves the store as it was.
C2_Capacity ==
    /\ [](Len(passwords) <= 128)
    /\ [][(/\ Handles(3)
           /\ Len(passwords) = 128
           /\ ArgName \notin Names(passwords)
           /\ gates' = <<Asked("Create password", TRUE)>>)
          => (/\ Failure(last'.status)
              /\ passwords' = passwords)]_vars

\* A create was accepted at the gate and refused by the full store.
C2_Witness ==
    /\ last.cmd = 3
    /\ gates = <<Asked("Create password", TRUE)>>
    /\ last.status = "Unknown"
    /\ Len(passwords) = 128
    /\ SubSeq(last.payload, 1, 2) \notin Names(passwords)

-----------------------------------------------------------------------------
\* C3: an accepted SetPassword for an existing name is answered OK and
\* leaves exactly one entry of that name, with the new password; every
\* other entry stays as it was and the length does not change.
C3_Replace ==
    [][(/\ Handles(3)
        /\ ArgName \in Names(passwords)
        /\ gates' = <<Asked("Update password", TRUE)>>)
       => (/\ last'.status = "OK"
           /\ Cardinality(WithName(passwords', ArgName)) = 1
           /\ \A i \in WithName(passwords', ArgName) :
                /\ ItemData(passwords'[i]) = last'.item
                /\ last'.p1 = 0 => passwords'[i].pass = SubSeq(last'.payload, 3, 4)
           /\ {it \in Items(passwords') : it.name # ArgName}
                = {it \in Items(passwords) : it.name # ArgName}
           /\ Len(passwords') = Len(passwords))]_vars

\* An update with a password given by the host was accepted, another entry
\* being in the store.
C3_Witness ==
    /\ last.cmd = 3
    /\ last.p1 = 0
    /\ last.status = "OK"
    /\ gates = <<Asked("Update password", TRUE)>>
    /\ Len(passwords) = MaxName

-----------------------------------------------------------------------------
\* C4: an encrypted import round whose tag does not match is answered with a
\* failure, leaves the store as it was (so what earlier rounds added stays),
\* and ends the sequence: the dispatcher is Idle, where a further 0x0a
\* is refused without touching the store.
C4_AuthFailureAborts ==
    [][/\ (/\ mode = "Importing"
           /\ encrypted
           /\ last'.cmd = 10
           /\ last'.payload[6] # ExpectedTag(last'.payload, enc_key))
          => (/\ Failure(last'.status)
              /\ passwords' = passwords
              /\ mode' = "Idle"
              /\ count' = 0)
       /\ Handles(10)
          => (/\ Failure(last'.status)
              /\ passwords' = passwords
              /\ mode' = "Idle")]_vars

\* A round of an import failed authentication after an earlier round of the
\* same sequence had added an entry to the empty store.
C4_Witness ==
    /\ last.cmd = 10
    /\ Len(last.payload) = 6
    /\ last.payload[6] # ExpectedTag(last.payload, enc_key)
    /\ last.status = "Unknown"
    /\ mode = "Idle"
    /\ imported = 1
    /\ Len(passwords) = 1

-----------------------------------------------------------------------------
\* C5: the reply to an accepted Export start carries the store's length N;
\* the records then sent, as the host reads them, are the store's entries in
\* store order, one per continue; the store does not change meanwhile; and
\* the dispatcher is Idle exactly when all N were sent (at once for N = 0).
C5_ExportSnapshot ==
    /\ [](/\ mode = "Exporting"
             => (/\ next_item \in 1 .. Len(passwords)
                 /\ sent = SubSeq(passwords, 1, next_item - 1))
          /\ (last.cmd = 7 /\ last.status = "OK")
             => (/\ last.data = <<Len(passwords)>>
                 /\ sent = <<>>
                 /\ (mode = "Idle") = (Len(passwords) = 0))
          /\ last.kind = "record"
             => (/\ Len(sent) \in 1 .. Len(passwords)
                 /\ sent = SubSeq(passwords, 1, Len(sent))
                 /\ HostView(last.data, Len(last.data) = 6, enc_key) = sent[Len(sent)]
                 /\ (mode = "Idle") = (Len(sent) = Len(passwords))))
    /\ [][mode = "Exporting" => passwords' = passwords]_vars

\* The last record of an encrypted export of a full store was sent.
C5_Witness ==
    /\ last.kind = "record"
    /\ Len(last.data) = 6
    /\ mode = "Idle"
    /\ Len(sent) = Capacity
    /\ sent = passwords

-----------------------------------------------------------------------------
\* C6: a command other than continue (0x08) received while exporting is
\* answered with an error and the dispatcher returns to Idle.
C6_ExportUnexpected ==
    [][(/\ mode = "Exporting"
        /\ last'.cmd \notin {0, 8})
       => (/\ Failure(last'.status)
           /\ mode' = "Idle")]_vars

-----------------------------------------------------------------------------
\* C7: a command is accepted only when the command before it was answered.
C7_OneReplyPerCommand ==
    [][(/\ last'.cmd # 0
        /\ last.cmd # 0)
       => last.status # "None"]_vars

-----------------------------------------------------------------------------
\* C8 as claimed: 0x08 or 0x0a received in Idle is answered with the status
\* of an unknown command code, store and dispatcher state unchanged.
C8_ReservedIsBadInstruction ==
    [][(Handles(8) \/ Handles(10))
       => (/\ last'.status = "BadCLA"
           /\ passwords' = passwords
           /\ mode' = "Idle")]_vars

\* C8 amended: 0x08 or 0x0a received in Idle is answered with the generic
\* failure status (Unknown), an unknown command code with BadCLA; the store
\* and the dispatcher state are unchanged.
C8_ReservedIsUnknown ==
    [][/\ (Handles(8) \/ Handles(10))
          => (/\ last'.status = "Unknown"
              /\ passwords' = passwords
              /\ <<mode', next_item', encrypted', count'>>
                    = <<mode, next_item, encrypted, count>>)
       /\ (mode = "Idle" /\ last'.cmd \notin 0 .. 12)
          => last'.status = "BadCLA"]_vars

\* 0x08 was refused in Idle, the store holding entries.
C8_Witness ==
    /\ last.cmd = 8
    /\ last.status = "Unknown"
    /\ mode = "Idle"
    /\ Len(passwords) > 0

-----------------------------------------------------------------------------
\* C9: when a gate of SetPassword, DeleteByName, DeleteAll, Export start or
\* Import start is rejected, the reply is a failure, the store is as before
\* and the dispatcher is Idle.
C9_NoConsentNoChange ==
    [][(/\ mode = "Idle"
        /\ last'.cmd \in {3, 6, 7, 9, 11}
        /\ Rejected(gates'))
       => (/\ Failure(last'.status)
           /\ passwords' = passwords
           /\ mode' = "Idle")]_vars

\* The update of an existing entry was rejected at the gate.
C9_Witness ==
    /\ last.cmd = 3
    /\ gates = <<Asked("Update password", FALSE)>>
    /\ mode = "Idle"
    /\ SubSeq(last.payload, 1, 2) \in Names(passwords)

-----------------------------------------------------------------------------
\* C10: a reply carrying a stored password follows the accepted gates of its
\* command or sequence: "Read password" for GetPasswordByName, "Export
\* passwords" for an encrypted record, and also the plaintext warning for a
\* plaintext record.
C10_DisclosureAfterConsent ==
    /\ last.kind = "pass" => gates = <<Asked("Read password", TRUE)>>
    /\ (last.kind = "record" /\ Len(last.data) = 6)
       => gates = <<Asked("Export passwords", TRUE)>>
    /\ (last.kind = "record" /\ Len(last.data) = 4)
       => gates = <<Asked("Export passwords", TRUE),
                    Asked("Export is plaintext!", TRUE)>>

\* A plaintext record was sent.
C10_Witness ==
    /\ last.kind = "record"
    /\ Len(last.data) = 4
    /\ last.data = ItemData(passwords[1])

-----------------------------------------------------------------------------
\* C11: a step that handles DeleteAll asks "Remove all passwords" and, only
\* when that was accepted, "Are you sure?"; it replies OK and leaves the store
\* empty exactly when both were accepted; when either was rejected the reply
\* is a failure and the store is unchanged.
C11_AskedInOrder ==
    \/ gates' = <<Asked("Remove all passwords", FALSE)>>
    \/ \E second \in BOOLEAN :
        gates' = <<Asked("Remove all passwords", TRUE), Asked("Are you sure?", second)>>

C11_DeleteAllTwoGates ==
    [][Handles(11) =>
        /\ C11_AskedInOrder
        /\ (last'.status = "OK") = ~Rejected(gates')
        /\ ~Rejected(gates') => passwords' = <<>>
        /\ Rejected(gates') => Failure(last'.status) /\ passwords' = passwords]_vars

\* DeleteAll was refused at the second prompt with passwords in the store.
C11_Witness ==
    /\ last.cmd = 11
    /\ gates = <<Asked("Remove all passwords", TRUE), Asked("Are you sure?", FALSE)>>
    /\ last.status = "Unknown"
    /\ Len(passwords) > 0

-----------------------------------------------------------------------------
(* Import rounds, seen from the import loop *)

\* The step being taken is a continue round of an import.
ImportRound == mode = "Importing" /\ last'.cmd = 10

\* The record of the round carries the tag its ciphertext must carry (a
\* plaintext record carries none).
Authentic == encrypted => last'.payload[6] = ExpectedTag(last'.payload, enc_key)

\* The name and the password the round decoded.
RoundName == SubSeq(last'.item, 1, 2)
RoundPass == SubSeq(last'.item, 3, 4)

\* The entries of pw other than those called name.
Others(pw, name) == {it \in Items(pw) : it.name # name}

-----------------------------------------------------------------------------
\* C12: in an import round whose record authenticates, when the decoded name
\* is in the store the round replies OK and the store afterwards has exactly
\* one entry of that name, carrying the imported password, at the same length;
\* when the name is not in the store and the store is not full, the store
\* grows by one entry, the decoded one.  The other entries are untouched.
C12_ImportReplace ==
    [][(ImportRound /\ Authentic) =>
        /\ RoundName \in Names(passwords) =>
            /\ last'.status = "OK"
            /\ Len(passwords') = Len(passwords)
        /\ (RoundName \notin Names(passwords) /\ Len(passwords) < Capacity) =>
            /\ last'.status = "OK"
            /\ Len(passwords') = Len(passwords) + 1
        /\ last'.status = "OK" =>
            /\ Cardinality(WithName(passwords', RoundName)) = 1
            /\ \A i \in WithName(passwords', RoundName) : passwords'[i].pass = RoundPass
            /\ Others(passwords', RoundName) = Others(passwords, RoundName)]_vars

\* Two rounds of one import were answered OK and the store holds one entry:
\* the second round replaced the entry the first one had added.
C12_Witness ==
    /\ last.cmd = 10
    /\ last.status = "OK"
    /\ imported = 2
    /\ Len(passwords) = 1

-----------------------------------------------------------------------------
\* C14: while an import waits for records (remaining > 0), a command other
\* than 0x0a is answered BadCLA, leaves the store as it was and ends the
\* sequence: the main loop is back, nothing remains to be consumed, and a
\* 0x0a sent afterwards is refused by the main loop without touching the store.
C14_ImportUnexpected ==
    /\ [](mode = "Importing" => count > 0)
    /\ [][(mode = "Importing" /\ last'.cmd \in Cmds \ {10}) =>
            /\ last'.status = "BadCLA"
            /\ passwords' = passwords
            /\ mode' = "Idle"
            /\ count' = 0]_vars
    /\ [][Handles(10) =>
            /\ Failure(last'.status)
            /\ passwords' = passwords
            /\ mode' = "Idle"]_vars

\* An import that declared two records was cut short by GetCount after one
\* round: one record was never consumed.
C14_Witness ==
    /\ last.cmd = 2
    /\ last.status = "BadCLA"
    /\ mode = "Idle"
    /\ count = 0
    /\ imported = 1
    /\ Len(passwords) = 1

-----------------------------------------------------------------------------
\* C15: an import round whose authentic record names an entry that is not in
\* a store of 128 entries replies a failure and leaves the store as it was;
\* the sequence goes on: the remaining count drops by one and the main loop
\* is back only when it reached zero.  An accepted import starts with its
\* declared count remaining, and every round lowers the remaining count, so
\* it ends after at most that many rounds.
C15_StorageFullRound ==
    /\ ImportRound
    /\ Authentic
    /\ RoundName \notin Names(passwords)
    /\ Len(passwords) = Capacity

C15_StorageFullRecoverable ==
    /\ [][C15_StorageFullRound =>
            /\ Failure(last'.status)
            /\ passwords' = passwords
            /\ count' = count - 1
            /\ mode' = IF count' = 0 THEN "Idle" ELSE "Importing"]_vars
    /\ [][(Handles(9) /\ mode' = "Importing") => count' = last'.payload[1]]_vars
    /\ [][ImportRound => (count' < count /\ count' >= 0)]_vars

\* A round was refused by a full store and the import still waits for records.
C15_Witness ==
    /\ last.cmd = 10
    /\ last.status = "Unknown"
    /\ mode = "Importing"
    /\ count > 0
    /\ Len(passwords) = Capacity
    /\ SubSeq(last.item, 1, 2) \notin Names(passwords)

-----------------------------------------------------------------------------
\* C16 as stated: every SetPassword of a name that was not in the store,
\* accepted at its prompt, makes the store one longer with that name at some
\* index below the length.
C16_Accepted == gates' # <<>> /\ ~Rejected(gates')

C16_Grown ==
    /\ Len(passwords') = Len(passwords) + 1
    /\ \E index \in 0 .. (Len(passwords') - 1) : passwords'[index + 1].name = ArgName

C16_CreateAlwaysGrows ==
    [][(Handles(3) /\ ArgName \notin Names(passwords) /\ C16_Accepted) =>
        C16_Grown]_vars

\* C16, amended: a SetPassword of a name that was not in the store, accepted
\* at its prompt while the store holds fewer than 128 entries, is answered OK
\* and makes the store one longer with that name at some index below the
\* length; GetCount replies the length of the store; GetNameByIndex replies
\* the name at an index below the length and "not found" (Unknown) at or above
\* it; an accepted DeleteByName of a name in the store replies OK, makes the
\* store one shorter, keeps every other entry and leaves no entry of that
\* name; a DeleteByName or GetPasswordByName of a name that is not in the
\* store is answered Unknown with no prompt asked and the store as it was.
C16_DeleteLookup ==
    /\ [][(/\ Handles(3)
           /\ ArgName \notin Names(passwords)
           /\ C16_Accepted
           /\ Len(passwords) < Capacity) =>
            /\ last'.status = "OK"
            /\ C16_Grown]_vars
    /\ [][Handles(2) =>
            /\ last'.status = "OK"
            /\ last'.data = <<Len(passwords)>>]_vars
    /\ [][Handles(4) =>
            IF last'.payload[1] < Len(passwords)
            THEN /\ last'.status = "OK"
                 /\ last'.data = passwords[last'.payload[1] + 1].name
            ELSE /\ last'.status = "Unknown"
                 /\ last'.data = <<>>]_vars
    /\ [][(Handles(6) /\ ArgName \in Names(passwords) /\ C16_Accepted) =>
            /\ last'.status = "OK"
            /\ Len(passwords') = Len(passwords) - 1
            /\ ArgName \notin Names(passwords')
            /\ Items(passwords') = Others(passwords, ArgName)]_vars
    /\ [][((Handles(5) \/ Handles(6)) /\ ArgName \notin Names(passwords)) =>
            /\ last'.status = "Unknown"
            /\ gates' = <<>>
            /\ passwords' = passwords]_vars

\* The 128th entry was created: the accepted create was answered OK and its
\* name sits at the last index below the count.
C16_Witness ==
    /\ last.cmd = 3
    /\ last.status = "OK"
    /\ gates = <<Asked("Create password", TRUE)>>
    /\ Len(passwords) = Capacity
    /\ passwords[Capacity].name = SubSeq(last.payload, 1, 2)

-----------------------------------------------------------------------------
\* C17: nothing of a sequence outlives it.  Whenever the main loop is
\* waiting, whatever sequence ended before and however it ended, there is no
\* cursor, no remaining count and no mode left; an accepted Export start
\* replies the length of the store as it is now, its cursor is on the first
\* entry of that store and its mode is the one of its own P1, so the first
\* record it sends is the first entry in the layout of that mode; an accepted
\* Import start has its own declared count remaining, in the mode of its own
\* P1.
C17_Started == last'.status = "OK"

C17_NoStaleSequenceState ==
    /\ [](mode = "Idle" => (next_item = 0 /\ count = 0 /\ ~encrypted))
    /\ [][(Handles(7) /\ C17_Started) =>
            /\ last'.data = <<Len(passwords)>>
            /\ mode' = IF Len(passwords) > 0 THEN "Exporting" ELSE "Idle"
            /\ mode' = "Exporting" =>
                (next_item' = 1 /\ encrypted' = (last'.p1 = 1) /\ sent' = <<>>)]_vars
    /\ [][(mode = "Exporting" /\ last'.cmd = 8 /\ sent = <<>>) =>
            /\ sent' = <<passwords[1]>>
            /\ Len(last'.data) = IF encrypted THEN 6 ELSE 4]_vars
    /\ [][(Handles(9) /\ C17_Started) =>
            /\ mode' = IF last'.payload[1] > 0 THEN "Importing" ELSE "Idle"
            /\ mode' = "Importing" =>
                (count' = last'.payload[1] /\ encrypted' = (last'.p1 = 1))]_vars

\* An encrypted import that had taken a record was ended by an Export start
\* sent in its place; the main loop waits with no sequence state left.
C17_Witness ==
    /\ last.cmd = 7
    /\ last.status = "BadCLA"
    /\ mode = "Idle"
    /\ imported > 0
    /\ next_item = 0 /\ count = 0 /\ ~encrypted
    /\ Len(last.item) = 0
    /\ Len(passwords) > 0

-----------------------------------------------------------------------------
\* C18: the step that handles the Export start and every step taken while
\* the export waits for a command, whatever the command and whatever the
\* answers to the prompts, leave the store as it was, so the store is the one
\* of the start all along the sequence; so do the steps that handle
\* GetVersion, GetCount, GetNameByIndex and GetPasswordByName.
C18_ReadOnly ==
    /\ [][mode = "Exporting" => passwords' = passwords]_vars
    /\ [][(Handles(7) \/ Handles(1) \/ Handles(2) \/ Handles(4) \/ Handles(5)) =>
            passwords' = passwords]_vars

\* A SetPassword arrived after the first record of an export of two entries:
\* the export still waits and the store still holds the two entries.
C18_Witness ==
    /\ mode = "Exporting"
    /\ last.cmd = 3
    /\ last.status = "None"
    /\ Len(sent) = 1
    /\ Len(passwords) = 2

-----------------------------------------------------------------------------
\* C20: the add that follows the removal of the entry of the same name never
\* finds the store full, a store of 128 entries included: no step reaches the
\* panic of set_password, the process ends only by the Exit command or the
\* exit buttons, an accepted SetPassword of a name in the store is answered
\* OK, and an import round whose authentic record names an entry in the store
\* is answered OK.
C20_ReplaceNeverFull ==
    /\ [](last.kind # "panic")
    /\ [](mode = "Exited" => last.cmd \in {0, 12})
    /\ [][(/\ Handles(3)
           /\ ArgName \in Names(passwords)
           /\ gates' = <<Asked("Update password", TRUE)>>) =>
            /\ last'.status = "OK"
            /\ Len(passwords') = Len(passwords)]_vars
    /\ [][(ImportRound /\ Authentic /\ RoundName \in Names(passwords)) =>
            /\ last'.status = "OK"
            /\ Len(passwords') = Len(passwords)]_vars

\* Two rounds of one import were answered OK and the store holds 128
\* entries: the second round replaced an entry of a full store.
C20_Witness ==
    /\ last.cmd = 10
    /\ last.status = "OK"
    /\ imported = 2
    /\ Len(passwords) = Capacity
    /\ mode = "Idle"

-----------------------------------------------------------------------------
\* The 62 characters a generated password may hold: a-z, A-Z, 0-9.
Alphabet == (97 .. 122) \cup (65 .. 90) \cup (48 .. 57)

\* The 32 bytes of the password the last SetPassword stored, when generated.
StoredBytes == set_from_bytes(generated')

-----------------------------------------------------------------------------
\* C19: when a SetPassword with P1 other than 0 is answered OK, the password
\* it stored is the 16 generated bytes padded with zeros: a string of exactly
\* 16 characters, each one a lowercase letter, an uppercase letter or a digit,
\* whatever values the random source returned.
C19_GeneratedPassword ==
    [][(Handles(3) /\ last'.p1 # 0 /\ last'.status = "OK") =>
        LET stored == as_str(StoredBytes)
        IN /\ Len(generated') = 16
           /\ Len(stored) = 16
           /\ \A i \in 1 .. Len(stored) : stored[i] \in Alphabet
           /\ \E i \in WithName(passwords', ArgName) :
                   passwords'[i].pass = BlocksOf(StoredBytes)]_vars

\* A password was generated whose first character came from the highest
\* value of the random source and whose second from the lowest.
C19_Witness ==
    /\ last.cmd = 3
    /\ last.p1 = 1
    /\ last.status = "OK"
    /\ Len(generated) = 16
    /\ generated[1] = 57
    /\ generated[2] = 97
    /\ Cardinality(Alphabet) = Len(PASS_CHARS)

-----------------------------------------------------------------------------
\* C13: whatever the entry, the key and the mode, the record an export round
\* made, given unmodified to an import round in the same mode under the same
\* key, is accepted (an encrypted record passes the tag check) and decodes to
\* the name and the password of the exported entry; once every record of a
\* store was imported into an empty store, that store holds the same entries.
C13_RoundTrip ==
    /\ last.cmd = 10 =>
        /\ last.status = "OK"
        /\ last.item = ItemData(sent[Len(sent)])
        /\ sent[Len(sent)] \in Items(restored)
    /\ (last.cmd = 10 /\ mode = "Idle") =>
        /\ Items(restored) = Items(passwords)
        /\ Len(restored) = Len(passwords)

\* An encrypted backup of two entries was restored on the second device.
C13_Witness ==
    /\ last.cmd = 10
    /\ mode = "Idle"
    /\ encrypted
    /\ Len(last.payload) = 6
    /\ imported = 2
    /\ Len(restored) = 2
    /\ Items(restored) = Items(passwords)

-----------------------------------------------------------------------------
\* C21: when power is lost during a SetPassword update or an import round
\* that replaces an entry, whichever store calls were made before, the store
\* found at the restart holds exactly one entry with the name being
\* replaced, carrying the old password or the new one.
C21_Replacing == pending # <<>>

C21_ReplaceSurvivesPowerLoss ==
    [][(C21_Replacing /\ last'.kind = "boot") =>
        /\ Cardinality(WithName(passwords', pending.new_item.name)) = 1
        /\ \A i \in WithName(passwords', pending.new_item.name) :
                passwords'[i].pass \in {pending.replaced.pass, pending.new_item.pass}]_vars

====
